---- MODULE Spec2Model ----
(***************************************************************************)
(* Model of src/n8n_pipe.py: the Pipe class that bridges a chat client to  *)
(* an n8n workflow (start call, response parsing, status polling, event    *)
(* emission).                                                              *)
(*                                                                         *)
(* Text is modelled as a sequence of atoms.  An atom is either a           *)
(* whitespace character (NL, SP) or a chunk of text without whitespace     *)
(* (a complete JSON value or a word that is not JSON).  json.loads is the  *)
(* library function Decode on chunks; everything the repository's code     *)
(* does with the text (strip, split, the fallback chain, join) is          *)
(* computed on the atoms.                                                  *)
(***************************************************************************)
EXTENDS Integers, Sequences, FiniteSets, TLC

(* ------------------------------------------------------------------ *)
(* Bounds of the model                                                 *)
(* ------------------------------------------------------------------ *)
MaxTextLen == 3
\* Valve values (all overridable, lines 49-60), chosen small.
emit_interval == 1
poll_interval == 2
max_poll_time == 5
\* Longest time one HTTP exchange takes, and the clock when pipe is entered.
MaxLatency == 1
StartClock == 10

(* ------------------------------------------------------------------ *)
(* Text atoms                                                          *)
(* ------------------------------------------------------------------ *)
NL == "\n"
SP == " "
Whitespace == {NL, SP}

OutputObj     == "{\"output\":\"42\"}"
OutputIdObj   == "{\"output\":\"42\",\"executionId\":\"e1\"}"
IdObj         == "{\"executionId\":\"e1\"}"
IdMsgObj      == "{\"executionId\":\"e2\",\"message\":\"hi\"}"
OtherObj      == "{\"status\":\"ok\"}"
ItemLine      == "{\"type\":\"item\",\"content\":\"a\"}"
MessageLine   == "{\"type\":\"message\",\"data\":\"b\"}"
BeginLine     == "{\"type\":\"begin\",\"executionId\":\"e1\"}"
EndLine       == "{\"type\":\"end\",\"executionId\":\"e2\"}"
JsonString    == "\"s\""
JsonNumber    == "7"
PlainWord     == "plain"

Chunks ==
    { OutputObj, OutputIdObj, IdObj, IdMsgObj, OtherObj, ItemLine, MessageLine,
      BeginLine, EndLine, JsonString, JsonNumber, PlainWord }

Atoms == Chunks \cup Whitespace

(* Optional values: None, or a value. *)
None == [some |-> FALSE, v |-> <<>>]
Some(x) == [some |-> TRUE, v |-> x]

(* Python truthiness of an optional string. *)
Truthy(o) == o.some /\ o.v # <<>>

(* json.loads on one chunk: the JSON value, or kind "bad" (JSONDecodeError). *)
Decode(a) ==
    CASE a = OutputObj   -> [kind |-> "dict", val |-> [output |-> <<"42">>]]
      [] a = OutputIdObj -> [kind |-> "dict", val |-> [output |-> <<"42">>, executionId |-> <<"e1">>]]
      [] a = IdObj       -> [kind |-> "dict", val |-> [executionId |-> <<"e1">>]]
      [] a = IdMsgObj    -> [kind |-> "dict", val |-> [executionId |-> <<"e2">>, message |-> <<"hi">>]]
      [] a = OtherObj    -> [kind |-> "dict", val |-> [status |-> <<"ok">>]]
      [] a = ItemLine    -> [kind |-> "dict", val |-> [type |-> <<"item">>, content |-> <<"a">>]]
      [] a = MessageLine -> [kind |-> "dict", val |-> [type |-> <<"message">>, data |-> <<"b">>]]
      [] a = BeginLine   -> [kind |-> "dict", val |-> [type |-> <<"begin">>, executionId |-> <<"e1">>]]
      [] a = EndLine     -> [kind |-> "dict", val |-> [type |-> <<"end">>, executionId |-> <<"e2">>]]
      [] a = JsonString  -> [kind |-> "str", val |-> <<"s">>]
      [] a = JsonNumber  -> [kind |-> "int", val |-> <<>>]
      [] OTHER           -> [kind |-> "bad", val |-> <<>>]

(* json.loads on a text without leading or trailing whitespace: one chunk   *)
(* decodes as itself, a run of digits is a number, and anything else (two   *)
(* values side by side, whitespace between values, the empty text) is a     *)
(* JSONDecodeError.                                                         *)
json_loads(t) ==
    IF Len(t) = 1 THEN Decode(t[1])
    ELSE IF Len(t) > 1 /\ \A k \in 1..Len(t) : t[k] = JsonNumber
         THEN [kind |-> "int", val |-> <<>>]
         ELSE [kind |-> "bad", val |-> <<>>]

(* dict.get(key) *)
Get(d, key) == IF key \in DOMAIN d THEN Some(d[key]) ELSE None

(* str.strip() *)
RECURSIVE LStrip(_)
LStrip(t) == IF t # <<>> /\ Head(t) \in Whitespace THEN LStrip(Tail(t)) ELSE t

RECURSIVE RStrip(_)
RStrip(t) ==
    IF t # <<>> /\ t[Len(t)] \in Whitespace THEN RStrip(SubSeq(t, 1, Len(t) - 1)) ELSE t

Strip(t) == LStrip(RStrip(t))

(* str.split("\n") *)
RECURSIVE SplitNL(_, _)
SplitNL(t, cur) ==
    IF t = <<>> THEN <<cur>>
    ELSE IF Head(t) = NL THEN <<cur>> \o SplitNL(Tail(t), <<>>)
    ELSE SplitNL(Tail(t), Append(cur, Head(t)))

Split(t) == SplitNL(t, <<>>)

(* "\n" in text *)
HasNL(t) == \E k \in 1..Len(t) : t[k] = NL

(* text.startswith('{"type":') *)
StartsWithType(t) == t # <<>> /\ t[1] \in {ItemLine, MessageLine, BeginLine, EndLine}

(* "".join(parts) *)
RECURSIVE Join(_)
Join(parts) == IF parts = <<>> THEN <<>> ELSE Head(parts) \o Join(Tail(parts))

(* ------------------------------------------------------------------ *)
(* Valves (configuration)                                              *)
(* ------------------------------------------------------------------ *)
response_field == "output"
n8n_status_url == <<"https://n8n/webhook/togaf-status">>

(* ------------------------------------------------------------------ *)
(* parse_response_text                                                 *)
(* ------------------------------------------------------------------ *)
Returned(content, execution_id) ==
    [raised |-> FALSE, content |-> content, executionId |-> execution_id]

(* An exception leaves the function: there is no return value. *)
Raised == [raised |-> TRUE, content |-> <<>>, executionId |-> None]

(* One pass of the body of the NDJSON for-loop.  acc is the loop state:    *)
(* content_parts, execution_id and whether an exception has left the loop. *)
NdjsonLineStep(acc, rawline) ==
    LET line == Strip(rawline)
        event == json_loads(line)
    IN  IF line = <<>> THEN acc
        ELSE IF event.kind = "bad"
             THEN [acc EXCEPT !.parts = Append(@, line)]
        ELSE IF event.kind # "dict"
             THEN [acc EXCEPT !.raised = TRUE]   \* event.get: AttributeError
        ELSE LET ev == event.val
                 event_type == Get(ev, "type")
                 id == IF Truthy(Get(ev, "executionId"))
                       THEN Get(ev, "executionId") ELSE acc.execution_id
                 item == IF "content" \in DOMAIN ev THEN ev["content"] ELSE <<>>
                 msg  == IF item # <<>> THEN item
                         ELSE IF "data" \in DOMAIN ev THEN ev["data"] ELSE <<>>
                 content == IF event_type = Some(<<"item">>) THEN item
                            ELSE IF event_type = Some(<<"message">>) THEN msg
                            ELSE <<>>
             IN  [acc EXCEPT !.execution_id = id,
                             !.parts = IF content # <<>> THEN Append(@, content) ELSE @]

RECURSIVE NdjsonLoop(_, _)
NdjsonLoop(lines, acc) ==
    IF lines = <<>> \/ acc.raised THEN acc
    ELSE NdjsonLoop(Tail(lines), NdjsonLineStep(acc, Head(lines)))

(* Lines 141-174: the NDJSON step and the raw-text fallback. *)
NdjsonOrFallback(response_text, execution_id) ==
    IF HasNL(response_text) \/ StartsWithType(response_text)
    THEN LET acc == NdjsonLoop(Split(response_text),
                               [parts |-> <<>>, execution_id |-> execution_id,
                                raised |-> FALSE])
         IN  IF acc.raised THEN Raised
             ELSE IF acc.parts # <<>> THEN Returned(Join(acc.parts), acc.execution_id)
             ELSE Returned(response_text, acc.execution_id)
    ELSE Returned(response_text, execution_id)

\* the response field returned without the handle
FieldReturnNoHandle(d, execution_id) == Returned(d[response_field], None)

\* line 131: return data[self.valves.response_field], execution_id
FieldReturn(d, execution_id) == Returned(d[response_field], execution_id)

parse_response_text(text) ==
    LET response_text == Strip(text)
        data == json_loads(response_text)
    IN  IF data.kind = "dict"
        THEN LET execution_id == Get(data.val, "executionId")
             IN  IF response_field \in DOMAIN data.val
                 THEN FieldReturn(data.val, execution_id)
                 ELSE IF Truthy(execution_id)
                 THEN Returned(IF "message" \in DOMAIN data.val
                               THEN data.val["message"]
                               ELSE <<"Workflow started...">>, execution_id)
                 ELSE NdjsonOrFallback(response_text, execution_id)
        ELSE IF data.kind = "str" THEN Returned(data.val, None)
        ELSE NdjsonOrFallback(response_text, None)

(* ------------------------------------------------------------------ *)
(* State                                                               *)
(* ------------------------------------------------------------------ *)
\* pipe invocations served by the one Pipe object
Invocations == {1, 2}

VARIABLES
    now,                     \* time.time()
    upstream,                \* how the workflow engine behaves: "any" or "steady"
    enable_status_indicator, \* self.valves.enable_status_indicator
    last_emit_time,          \* self.last_emit_time      (on the Pipe object)
    streamed_messages,       \* self.streamed_messages   (on the Pipe object)
    pc,                      \* where each invocation stands
    emitter,                 \* whether __event_emitter__ was supplied
    messages,                \* body["messages"]
    response_text,           \* pipe: response_text, once the start call answered
    n8n_response,            \* pipe: n8n_response
    execution_id,            \* pipe: execution_id
    error_msg,               \* the exception travelling to pipe's except clause
    start_time,              \* poll_for_status: start_time
    elapsed,                 \* poll_for_status: elapsed
    last_message,            \* poll_for_status: last_message
    poll_count,              \* poll_for_status: poll_count
    wake_at,                 \* when the pending asyncio.sleep ends
    ret,                     \* what pipe returned
    sink,                    \* events the emitter received, in order
    status_calls,            \* calls of emit_status, in order
    posts,                   \* start calls issued
    fetches,                 \* status fetches issued: elapsed at the loop head
    replies,                 \* status replies received
    sleeps                   \* asyncio.sleep calls of the poll loop
    , text, parsed           \* parse_response_text on its own: argument, result

pipeVars == << now, upstream, enable_status_indicator, last_emit_time,
               streamed_messages, pc, emitter, messages, response_text,
               n8n_response, execution_id, error_msg, start_time, elapsed, last_message,
               poll_count, wake_at, ret, sink, status_calls, posts, fetches,
               replies, sleeps >>

vars == << pipeVars, text, parsed >>

(* ------------------------------------------------------------------ *)
(* Events                                                              *)
(* ------------------------------------------------------------------ *)
StatusEvent(t, level, description, done) ==
    [type |-> "status", at |-> t, done |-> done, level |-> level,
     content |-> description, n |-> 0]

MessageEvent(t, content, n) ==
    [type |-> "message", at |-> t, done |-> FALSE, level |-> "",
     content |-> content, n |-> n]

\* emit_message: every call is delivered when there is an emitter
emit_message(snk, i, t, content, n) ==
    IF emitter[i] THEN Append(snk, MessageEvent(t, content, n)) ELSE snk

\* the throttle without the exemption of terminal events
StatusDeliveredThrottledOnly(i, t, done) ==
    /\ emitter[i]
    /\ enable_status_indicator
    /\ t - last_emit_time >= emit_interval

\* emit_status, lines 92-98: whether the event is delivered
StatusDelivered(i, t, done) ==
    /\ emitter[i]
    /\ enable_status_indicator
    /\ (t - last_emit_time >= emit_interval \/ done)

\* emit_status, line 110: self.last_emit_time after the call
LastEmitAfter(i, t, done) ==
    IF StatusDelivered(i, t, done) THEN t ELSE last_emit_time

\* emit_status, lines 99-109: the sink after the call
emit_status(snk, i, t, level, description, done) ==
    IF StatusDelivered(i, t, done)
    THEN Append(snk, StatusEvent(t, level, description, done))
    ELSE snk

\* the record kept of one emit_status call
StatusCall(t, done) == [at |-> t, done |-> done]

(* ------------------------------------------------------------------ *)
(* What the upstream services may answer                               *)
(* ------------------------------------------------------------------ *)
UserMessage == [role |-> "user", content |-> <<"question">>]

\* bodies of the start call's answer
StartTexts ==
    IF upstream = "any"
    THEN { <<OutputObj>>, <<SP, OutputObj, NL>>, <<IdObj>>, <<OutputIdObj>>,
           <<PlainWord>>, <<>>,
           <<ItemLine, NL, MessageLine>>, <<JsonNumber, NL, JsonNumber>> }
    ELSE { <<OutputObj>>, <<IdObj>> }

Latencies == IF upstream = "any" THEN 0..MaxLatency ELSE {0}

\* the result field of a status snapshot
NoResult       == [kind |-> "none", val |-> <<>>]
StrResult      == [kind |-> "str",  val |-> <<"ok">>]
EmptyStrResult == [kind |-> "str",  val |-> <<>>]
DictResult     == [kind |-> "dict", val |-> <<"r1">>]
ListResult     == [kind |-> "list", val |-> <<"x">>]

\* the message field of a status snapshot ("" when absent)
M1 == <<"phase one">>
M2 == <<"line", "\\n", "two">>

\* the error field of a status snapshot, word by word ("" when absent)
NotFoundError == <<"Execution", "Not", "Found">>
OtherError    == <<"found", "not", "boom">>

Snapshot(error, message, done, result) ==
    [error |-> error, message |-> message, done |-> done, result |-> result]

\* JSON bodies of a 200 answer of the status endpoint
Snapshots ==
    IF upstream = "any"
    THEN { Snapshot(NotFoundError, <<>>, FALSE, NoResult),
           Snapshot(OtherError, <<>>, FALSE, NoResult),
           Snapshot(OtherError, M1, TRUE, StrResult) }
         \cup { Snapshot(<<>>, m, FALSE, NoResult) : m \in {<<>>, M1, M2} }
         \cup { Snapshot(<<>>, m, TRUE, r) :
                  m \in {<<>>, M1, M2},
                  r \in {NoResult, StrResult, EmptyStrResult, DictResult, ListResult} }
    ELSE { Snapshot(<<>>, M1, FALSE, NoResult),
           Snapshot(<<>>, M2, TRUE, StrResult) }

\* a status reply as the poll loop sees it
Reply(kind, snap) == [kind |-> kind, snap |-> snap]
NoSnapshot == Snapshot(<<>>, <<>>, FALSE, NoResult)

(* ------------------------------------------------------------------ *)
(* Decisions and conversions of poll_for_status and pipe               *)
(* ------------------------------------------------------------------ *)
Max(a, b) == IF a >= b THEN a ELSE b

\* polling whenever a status URL is configured
ShouldPollAlways(id) == n8n_status_url # <<>>

\* line 375: if execution_id and self.valves.n8n_status_url
ShouldPoll(id) == Truthy(id) /\ n8n_status_url # <<>>

\* the limit taken from the pause length instead of the maximum poll time
TimedOutByPollInterval(e) == e > poll_interval

\* the limit tested with >= instead of >
TimedOutAtLimit(e) == e >= max_poll_time

\* line 200: if elapsed > self.valves.max_poll_time
TimedOut(e) == e > max_poll_time

\* str.lower() on one word
Lower(w) ==
    CASE w = "Execution" -> "execution"
      [] w = "Not"       -> "not"
      [] w = "Found"     -> "found"
      [] OTHER           -> w

\* the test for "found" alone
ContainsFound(error) == \E k \in 1..Len(error) : Lower(error[k]) = "found"

\* line 218: "not found" in error_msg.lower()
ContainsNotFound(error) ==
    \E k \in 1..(Len(error) - 1) :
        Lower(error[k]) = "not" /\ Lower(error[k + 1]) = "found"

NotFoundLimit == 3

\* one not-found reply tolerated less
NotFoundToleratedOnce(count) == count < NotFoundLimit - 1

\* line 221: if poll_count < 3
NotFoundTolerated(count) == count < NotFoundLimit

\* the comparison with the last message left out
MessageChangedNonEmpty(current_message, last) == current_message # <<>>

\* line 241: if current_message and current_message != last_message
MessageChanged(current_message, last) ==
    current_message # <<>> /\ current_message # last

\* line 247: current_message.replace("\\n", "\n")
Formatted(m) == [k \in 1..Len(m) |-> IF m[k] = "\\n" THEN NL ELSE m[k]]

\* line 264: if result
ResultTruthy(r) == r.kind # "none" /\ r.val # <<>>

\* format_final_response raises on a result that is neither str nor dict
Renderable(r) == r.kind \in {"str", "dict"}

\* format_final_response, lines 287-322 (projectName and domain defaulted)
format_final_response(r) ==
    IF r.kind = "str" THEN r.val
    ELSE <<"**TOGAF Enterprise Architecture Complete**", "Repository: ">> \o r.val
         \o <<"Project: ", "Unknown", "Domain: ", "Technology">>

\* the fixed texts
Banner(id) == <<"**TOGAF Workflow Started** Execution ID: ">> \o id.v
TimeoutNotice == <<"**Workflow timed out**">>
NotFoundNotice == <<"**Workflow execution not found.**">>
WorkflowErrorNotice(error) == <<"**Workflow error:** ">> \o error
NetworkNotice == <<"_Network issue, retrying..._">>
ErrorNotice(e) == <<"**Error:** ">> \o e
Separator == <<"\n\n---\n\n">>
PhaseText == <<"Phase: unknown | Progress: 0%">>
NoMessagesText == <<"No messages found in the request body">>

(* ------------------------------------------------------------------ *)
(* Initial states                                                      *)
(* ------------------------------------------------------------------ *)
Fresh ==
    /\ now = StartClock
    /\ last_emit_time = 0
    /\ streamed_messages = <<>>
    /\ response_text = [i \in Invocations |-> None]
    /\ n8n_response = [i \in Invocations |-> <<>>]
    /\ execution_id = [i \in Invocations |-> None]
    /\ error_msg = [i \in Invocations |-> <<>>]
    /\ start_time = [i \in Invocations |-> 0]
    /\ elapsed = [i \in Invocations |-> 0]
    /\ last_message = [i \in Invocations |-> <<>>]
    /\ poll_count = [i \in Invocations |-> 0]
    /\ wake_at = [i \in Invocations |-> 0]
    /\ ret = [i \in Invocations |-> <<>>]
    /\ sink = [i \in Invocations |-> <<>>]
    /\ status_calls = [i \in Invocations |-> <<>>]
    /\ posts = [i \in Invocations |-> 0]
    /\ fetches = [i \in Invocations |-> <<>>]
    /\ replies = [i \in Invocations |-> <<>>]
    /\ sleeps = [i \in Invocations |-> 0]

\* one invocation on a freshly constructed Pipe, any upstream behaviour
Init ==
    /\ Fresh
    /\ text = <<>>
    /\ parsed = <<>>
    /\ upstream = "any"
    /\ enable_status_indicator \in BOOLEAN
    /\ pc = [i \in Invocations |-> IF i = 1 THEN "entry" ELSE "idle"]
    /\ \E e \in BOOLEAN : emitter = [i \in Invocations |-> i = 1 /\ e]
    /\ \E m \in {<<>>, <<UserMessage>>} :
          messages = [i \in Invocations |-> IF i = 1 THEN m ELSE <<>>]

(* ------------------------------------------------------------------ *)
(* pipe                                                                *)
(* ------------------------------------------------------------------ *)
Goto(i, label) == pc' = [pc EXCEPT ![i] = label]

\* what every call of emit_status does besides delivering the event
StatusEffects(i, t, done) ==
    /\ last_emit_time' = LastEmitAfter(i, t, done)
    /\ status_calls' = [status_calls EXCEPT ![i] = Append(@, StatusCall(t, done))]

\* lines 331-333
PipeEntry(i) ==
    /\ pc[i] = "entry"
    /\ sink' = [sink EXCEPT ![i] =
                  emit_status(@, i, now, "info", <<"Starting TOGAF Workflow...">>, FALSE)]
    /\ StatusEffects(i, now, FALSE)
    /\ Goto(i, "check")
    /\ UNCHANGED << response_text, now, upstream, enable_status_indicator, streamed_messages,
                    emitter, messages, n8n_response, execution_id, error_msg,
                    start_time, elapsed, last_message, poll_count, wake_at, ret,
                    posts, fetches, replies, sleeps, text, parsed >>

\* the early return missing: the request is sent although there is no message
PipeNoMessagesSendsRequest(i) ==
    /\ pc[i] = "check"
    /\ messages[i] = <<>>
    /\ sink' = [sink EXCEPT ![i] = emit_status(@, i, now, "error", NoMessagesText, TRUE)]
    /\ StatusEffects(i, now, TRUE)
    /\ posts' = [posts EXCEPT ![i] = @ + 1]
    /\ Goto(i, "posting")
    /\ UNCHANGED << response_text, now, upstream, enable_status_indicator, streamed_messages,
                    emitter, messages, n8n_response, execution_id, error_msg,
                    start_time, elapsed, last_message, poll_count, wake_at, ret,
                    fetches, replies, sleeps, text, parsed >>

\* lines 335-345
PipeNoMessages(i) ==
    /\ pc[i] = "check"
    /\ messages[i] = <<>>
    /\ sink' = [sink EXCEPT ![i] = emit_status(@, i, now, "error", NoMessagesText, TRUE)]
    /\ StatusEffects(i, now, TRUE)
    /\ ret' = [ret EXCEPT ![i] = NoMessagesText]
    /\ Goto(i, "returned")
    /\ UNCHANGED << response_text, now, upstream, enable_status_indicator, streamed_messages,
                    emitter, messages, n8n_response, execution_id, error_msg,
                    start_time, elapsed, last_message, poll_count, wake_at,
                    posts, fetches, replies, sleeps, text, parsed >>

\* lines 347-364: the start call is issued
PipeSendRequest(i) ==
    /\ pc[i] = "check"
    /\ messages[i] # <<>>
    /\ sink' = [sink EXCEPT ![i] =
                  emit_status(@, i, now, "info", <<"Sending request to n8n...">>, FALSE)]
    /\ StatusEffects(i, now, FALSE)
    /\ posts' = [posts EXCEPT ![i] = @ + 1]
    /\ Goto(i, "posting")
    /\ UNCHANGED << response_text, now, upstream, enable_status_indicator, streamed_messages,
                    emitter, messages, n8n_response, execution_id, error_msg,
                    start_time, elapsed, last_message, poll_count, wake_at, ret,
                    fetches, replies, sleeps, text, parsed >>

\* an exception leaves the try block for the except clause of line 395
RaiseToPipe(i, e) ==
    /\ error_msg' = [error_msg EXCEPT ![i] = e]
    /\ Goto(i, "except")

\* line 362: session.post raises aiohttp.ClientError
PostClientError(i) ==
    /\ pc[i] = "posting"
    /\ \E d \in Latencies : now' = now + d
    /\ RaiseToPipe(i, <<"ClientError">>)
    /\ UNCHANGED << response_text, upstream, enable_status_indicator, last_emit_time,
                    streamed_messages, emitter, messages, n8n_response,
                    execution_id, start_time, elapsed, last_message, poll_count,
                    wake_at, ret, sink, status_calls, posts, fetches, replies,
                    sleeps, text, parsed >>

\* lines 367-369: a status other than 200 and 202
PostHttpError(i) ==
    /\ pc[i] = "posting"
    /\ \E d \in Latencies : now' = now + d
    /\ RaiseToPipe(i, <<"HTTP 500: ", "error_text">>)
    /\ UNCHANGED << response_text, upstream, enable_status_indicator, last_emit_time,
                    streamed_messages, emitter, messages, n8n_response,
                    execution_id, start_time, elapsed, last_message, poll_count,
                    wake_at, ret, sink, status_calls, posts, fetches, replies,
                    sleeps, text, parsed >>

\* lines 371-372: parse_response_text raises
PostParseRaises(i) ==
    /\ pc[i] = "posting"
    /\ \E d \in Latencies : now' = now + d
    /\ \E body \in StartTexts :
          /\ parse_response_text(body).raised
          /\ response_text' = [response_text EXCEPT ![i] = Some(body)]
    /\ RaiseToPipe(i, <<"AttributeError">>)
    /\ UNCHANGED << upstream, enable_status_indicator, last_emit_time,
                    streamed_messages, emitter, messages, n8n_response,
                    execution_id, start_time, elapsed, last_message, poll_count,
                    wake_at, ret, sink, status_calls, posts, fetches, replies,
                    sleeps, text, parsed >>

\* lines 371-389, no polling: the parsed content is the response
PostSync(i) ==
    /\ pc[i] = "posting"
    /\ \E d \in Latencies : now' = now + d
    /\ \E body \in StartTexts :
          LET r == parse_response_text(body)
          IN  /\ ~r.raised
              /\ ~ShouldPoll(r.executionId)
              /\ response_text' = [response_text EXCEPT ![i] = Some(body)]
              /\ n8n_response' = [n8n_response EXCEPT ![i] = r.content]
              /\ execution_id' = [execution_id EXCEPT ![i] = r.executionId]
    /\ Goto(i, "complete")
    /\ UNCHANGED << upstream, enable_status_indicator, last_emit_time,
                    streamed_messages, emitter, messages, error_msg, start_time,
                    elapsed, last_message, poll_count, wake_at, ret, sink,
                    status_calls, posts, fetches, replies, sleeps, text, parsed >>

\* lines 371-381: an execution handle came back, polling is announced
PostAsync(i) ==
    /\ pc[i] = "posting"
    /\ \E d \in Latencies, body \in StartTexts :
          LET r == parse_response_text(body)
              t == now + d
          IN  /\ ~r.raised
              /\ ShouldPoll(r.executionId)
              /\ now' = t
              /\ response_text' = [response_text EXCEPT ![i] = Some(body)]
              /\ n8n_response' = [n8n_response EXCEPT ![i] = r.content]
              /\ execution_id' = [execution_id EXCEPT ![i] = r.executionId]
              /\ sink' = [sink EXCEPT ![i] =
                    emit_status(@, i, t, "info",
                                <<"Workflow accepted, polling for status...">>, FALSE)]
              /\ StatusEffects(i, t, FALSE)
    /\ Goto(i, "poll_start")
    /\ UNCHANGED << upstream, enable_status_indicator, streamed_messages,
                    emitter, messages, error_msg, start_time, elapsed,
                    last_message, poll_count, wake_at, ret, posts, fetches,
                    replies, sleeps, text, parsed >>

\* lines 391-393 and 410-411
PipeComplete(i) ==
    /\ pc[i] = "complete"
    /\ messages' = [messages EXCEPT ![i] =
          IF n8n_response[i] # <<>>
          THEN Append(@, [role |-> "assistant", content |-> n8n_response[i]])
          ELSE @]
    /\ sink' = [sink EXCEPT ![i] = emit_status(@, i, now, "info", <<"Complete">>, TRUE)]
    /\ StatusEffects(i, now, TRUE)
    /\ ret' = [ret EXCEPT ![i] = n8n_response[i]]
    /\ Goto(i, "returned")
    /\ UNCHANGED << response_text, now, upstream, enable_status_indicator, streamed_messages,
                    emitter, n8n_response, execution_id, error_msg, start_time,
                    elapsed, last_message, poll_count, wake_at, posts, fetches,
                    replies, sleeps, text, parsed >>

\* lines 395-408
PipeExcept(i) ==
    /\ pc[i] = "except"
    /\ sink' = [sink EXCEPT ![i] =
          emit_message(emit_status(@, i, now, "error", <<"Error: ">> \o error_msg[i], TRUE),
                       i, now, ErrorNotice(error_msg[i]), 0)]
    /\ StatusEffects(i, now, TRUE)
    /\ ret' = [ret EXCEPT ![i] = <<>>]
    /\ Goto(i, "returned")
    /\ UNCHANGED << response_text, now, upstream, enable_status_indicator, streamed_messages,
                    emitter, messages, n8n_response, execution_id, error_msg,
                    start_time, elapsed, last_message, poll_count, wake_at,
                    posts, fetches, replies, sleeps, text, parsed >>

(* ------------------------------------------------------------------ *)
(* poll_for_status                                                     *)
(* ------------------------------------------------------------------ *)
\* a return statement missing: the loop goes on to its pause
PollReturnsContinues(i) ==
    /\ n8n_response' = n8n_response
    /\ Goto(i, "sleep")

\* poll_for_status returns "" to line 384
PollReturns(i) ==
    /\ n8n_response' = [n8n_response EXCEPT ![i] = <<>>]
    /\ Goto(i, "complete")

\* lines 187-196 (the handles of the model are shorter than 20 characters)
PollStart(i) ==
    /\ pc[i] = "poll_start"
    /\ start_time' = [start_time EXCEPT ![i] = now]
    /\ last_message' = [last_message EXCEPT ![i] = <<>>]
    /\ poll_count' = [poll_count EXCEPT ![i] = 0]
    /\ streamed_messages' = <<>>
    /\ sink' = [sink EXCEPT ![i] = emit_message(@, i, now, Banner(execution_id[i]), 0)]
    /\ Goto(i, "loop_head")
    /\ UNCHANGED << response_text, now, upstream, enable_status_indicator, last_emit_time,
                    emitter, messages, n8n_response, execution_id, error_msg,
                    elapsed, wake_at, ret, status_calls, posts, fetches, replies,
                    sleeps, text, parsed >>

\* lines 199-205
PollTimeout(i) ==
    /\ pc[i] = "loop_head"
    /\ TimedOut(now - start_time[i])
    /\ elapsed' = [elapsed EXCEPT ![i] = now - start_time[i]]
    /\ sink' = [sink EXCEPT ![i] =
                  emit_message(@, i, now, TimeoutNotice, now - start_time[i])]
    /\ PollReturns(i)
    /\ UNCHANGED << response_text, now, upstream, enable_status_indicator, last_emit_time,
                    streamed_messages, emitter, messages, execution_id, error_msg,
                    start_time, last_message, poll_count, wake_at, ret,
                    status_calls, posts, fetches, replies, sleeps, text, parsed >>

\* lines 199-211: the status fetch is issued
PollFetch(i) ==
    /\ pc[i] = "loop_head"
    /\ ~TimedOut(now - start_time[i])
    /\ elapsed' = [elapsed EXCEPT ![i] = now - start_time[i]]
    /\ poll_count' = [poll_count EXCEPT ![i] = @ + 1]
    /\ fetches' = [fetches EXCEPT ![i] = Append(@, now - start_time[i])]
    /\ Goto(i, "fetching")
    /\ UNCHANGED << response_text, now, upstream, enable_status_indicator, last_emit_time,
                    streamed_messages, emitter, messages, n8n_response,
                    execution_id, error_msg, start_time, last_message, wake_at,
                    ret, sink, status_calls, posts, replies, sleeps, text, parsed >>

\* the reply arrives after some latency
Received(i, d, reply) ==
    /\ now' = now + d
    /\ replies' = [replies EXCEPT ![i] = Append(@, reply)]

\* lines 274-276: a status other than 200
FetchHttpError(i) ==
    /\ pc[i] = "fetching"
    /\ \E d \in Latencies : Received(i, d, Reply("http_error", NoSnapshot))
    /\ Goto(i, "sleep")
    /\ UNCHANGED << response_text, upstream, enable_status_indicator, last_emit_time,
                    streamed_messages, emitter, messages, n8n_response,
                    execution_id, error_msg, start_time, elapsed, last_message,
                    poll_count, wake_at, ret, sink, status_calls, posts, fetches,
                    sleeps, text, parsed >>

\* the except clause of line 278 missing: the error leaves poll_for_status
FetchClientErrorRaises(i) ==
    /\ pc[i] = "fetching"
    /\ \E d \in Latencies : Received(i, d, Reply("client_error", NoSnapshot))
    /\ RaiseToPipe(i, <<"ClientError">>)
    /\ UNCHANGED << response_text, upstream, enable_status_indicator, last_emit_time,
                    streamed_messages, emitter, messages, n8n_response,
                    execution_id, start_time, elapsed, last_message, poll_count,
                    wake_at, ret, sink, status_calls, posts, fetches, sleeps,
                    text, parsed >>

\* lines 278-283: aiohttp.ClientError
FetchClientError(i) ==
    /\ pc[i] = "fetching"
    /\ \E d \in Latencies :
          /\ Received(i, d, Reply("client_error", NoSnapshot))
          /\ sink' = [sink EXCEPT ![i] =
                        emit_message(@, i, now + d, NetworkNotice, poll_count[i])]
    /\ Goto(i, "sleep")
    /\ UNCHANGED << response_text, upstream, enable_status_indicator, last_emit_time,
                    streamed_messages, emitter, messages, n8n_response,
                    execution_id, error_msg, start_time, elapsed, last_message,
                    poll_count, wake_at, ret, status_calls, posts, fetches,
                    sleeps, text, parsed >>

\* line 213: the body of a 200 answer is not JSON; json() raises an
\* exception that is no ClientError
FetchRaises(i) ==
    /\ pc[i] = "fetching"
    /\ \E d \in Latencies : Received(i, d, Reply("bad_body", NoSnapshot))
    /\ RaiseToPipe(i, <<"JSONDecodeError">>)
    /\ UNCHANGED << response_text, upstream, enable_status_indicator, last_emit_time,
                    streamed_messages, emitter, messages, n8n_response,
                    execution_id, start_time, elapsed, last_message, poll_count,
                    wake_at, ret, sink, status_calls, posts, fetches, sleeps,
                    text, parsed >>

\* lines 216-228: the snapshot reports an error that contains "not found"
FetchNotFound(i) ==
    /\ pc[i] = "fetching"
    /\ \E d \in Latencies, s \in Snapshots :
          /\ s.error # <<>>
          /\ ContainsNotFound(s.error)
          /\ Received(i, d, Reply("ok", s))
          /\ IF NotFoundTolerated(poll_count[i])
             THEN /\ Goto(i, "sleep")
                  /\ UNCHANGED << sink, n8n_response >>
             ELSE /\ sink' = [sink EXCEPT ![i] =
                                emit_message(@, i, now + d, NotFoundNotice, 0)]
                  /\ PollReturns(i)
    /\ UNCHANGED << response_text, upstream, enable_status_indicator, last_emit_time,
                    streamed_messages, emitter, messages, execution_id,
                    error_msg, start_time, elapsed, last_message, poll_count,
                    wake_at, ret, status_calls, posts, fetches, sleeps, text,
                    parsed >>

\* lines 216-233: the snapshot reports any other error
FetchWorkflowError(i) ==
    /\ pc[i] = "fetching"
    /\ \E d \in Latencies, s \in Snapshots :
          /\ s.error # <<>>
          /\ ~ContainsNotFound(s.error)
          /\ Received(i, d, Reply("ok", s))
          /\ sink' = [sink EXCEPT ![i] =
                        emit_message(@, i, now + d, WorkflowErrorNotice(s.error), 0)]
    /\ PollReturns(i)
    /\ UNCHANGED << response_text, upstream, enable_status_indicator, last_emit_time,
                    streamed_messages, emitter, messages, execution_id,
                    error_msg, start_time, elapsed, last_message, poll_count,
                    wake_at, ret, status_calls, posts, fetches, sleeps, text,
                    parsed >>

\* the status indicator emitted before the progress message
ProgressSinkStatusFirst(snk, i, t, s) ==
    IF MessageChanged(s.message, last_message[i])
    THEN emit_message(emit_status(snk, i, t, "info", PhaseText, s.done),
                      i, t, Formatted(s.message) \o Separator, 0)
    ELSE snk

\* lines 236-259: the progress message of a snapshot without error; snk is
\* the sink of invocation i after it
ProgressSink(snk, i, t, s) ==
    IF MessageChanged(s.message, last_message[i])
    THEN emit_status(emit_message(snk, i, t, Formatted(s.message) \o Separator, 0),
                     i, t, "info", PhaseText, s.done)
    ELSE snk

Progress(i, t, s) ==
    IF MessageChanged(s.message, last_message[i])
    THEN /\ last_message' = [last_message EXCEPT ![i] = s.message]
         /\ streamed_messages' = Append(streamed_messages, s.message)
         /\ StatusEffects(i, t, s.done)
    ELSE UNCHANGED << last_message, streamed_messages, last_emit_time, status_calls >>

\* lines 236-262, 285: a snapshot without error that is not done
FetchProgress(i) ==
    /\ pc[i] = "fetching"
    /\ \E d \in Latencies, s \in Snapshots :
          /\ s.error = <<>>
          /\ ~s.done
          /\ Received(i, d, Reply("ok", s))
          /\ sink' = [sink EXCEPT ![i] = ProgressSink(@, i, now + d, s)]
          /\ Progress(i, now + d, s)
    /\ Goto(i, "sleep")
    /\ UNCHANGED << response_text, upstream, enable_status_indicator, emitter, messages,
                    n8n_response, execution_id, error_msg, start_time, elapsed,
                    poll_count, wake_at, ret, posts, fetches, sleeps, text,
                    parsed >>

\* lines 236-272: a snapshot without error that is done
FetchDone(i) ==
    /\ pc[i] = "fetching"
    /\ \E d \in Latencies, s \in Snapshots :
          /\ s.error = <<>>
          /\ s.done
          /\ ~ResultTruthy(s.result) \/ Renderable(s.result)
          /\ Received(i, d, Reply("ok", s))
          /\ sink' = [sink EXCEPT ![i] =
                IF ResultTruthy(s.result)
                THEN emit_message(ProgressSink(@, i, now + d, s), i, now + d,
                                  <<NL>> \o format_final_response(s.result), 0)
                ELSE ProgressSink(@, i, now + d, s)]
          /\ Progress(i, now + d, s)
    /\ PollReturns(i)
    /\ UNCHANGED << response_text, upstream, enable_status_indicator, emitter, messages,
                    execution_id, error_msg, start_time, elapsed, poll_count,
                    wake_at, ret, posts, fetches, sleeps, text, parsed >>

\* lines 236-265: done, and format_final_response raises on the result
FetchDoneRaises(i) ==
    /\ pc[i] = "fetching"
    /\ \E d \in Latencies, s \in Snapshots :
          /\ s.error = <<>>
          /\ s.done
          /\ ResultTruthy(s.result) /\ ~Renderable(s.result)
          /\ Received(i, d, Reply("ok", s))
          /\ sink' = [sink EXCEPT ![i] = ProgressSink(@, i, now + d, s)]
          /\ Progress(i, now + d, s)
    /\ RaiseToPipe(i, <<"AttributeError">>)
    /\ UNCHANGED << response_text, upstream, enable_status_indicator, emitter, messages,
                    n8n_response, execution_id, start_time, elapsed, poll_count,
                    wake_at, ret, posts, fetches, sleeps, text, parsed >>

\* the pause taken from the emit interval instead of the poll interval
PollSleepEmitInterval(i) ==
    /\ pc[i] = "sleep"
    /\ wake_at' = [wake_at EXCEPT ![i] = now + emit_interval]
    /\ sleeps' = [sleeps EXCEPT ![i] = @ + 1]
    /\ Goto(i, "sleeping")
    /\ UNCHANGED << response_text, now, upstream, enable_status_indicator, last_emit_time,
                    streamed_messages, emitter, messages, n8n_response,
                    execution_id, error_msg, start_time, elapsed, last_message,
                    poll_count, ret, sink, status_calls, posts, fetches, replies,
                    text, parsed >>

\* lines 222 and 285: await asyncio.sleep(self.valves.poll_interval)
PollSleep(i) ==
    /\ pc[i] = "sleep"
    /\ wake_at' = [wake_at EXCEPT ![i] = now + poll_interval]
    /\ sleeps' = [sleeps EXCEPT ![i] = @ + 1]
    /\ Goto(i, "sleeping")
    /\ UNCHANGED << response_text, now, upstream, enable_status_indicator, last_emit_time,
                    streamed_messages, emitter, messages, n8n_response,
                    execution_id, error_msg, start_time, elapsed, last_message,
                    poll_count, ret, sink, status_calls, posts, fetches, replies,
                    text, parsed >>

\* the sleep is over: back to line 198
PollWake(i) ==
    /\ pc[i] = "sleeping"
    /\ now' = Max(now, wake_at[i])
    /\ Goto(i, "loop_head")
    /\ UNCHANGED << response_text, upstream, enable_status_indicator, last_emit_time,
                    streamed_messages, emitter, messages, n8n_response,
                    execution_id, error_msg, start_time, elapsed, last_message,
                    poll_count, wake_at, ret, sink, status_calls, posts, fetches,
                    replies, sleeps, text, parsed >>

(* ------------------------------------------------------------------ *)
(* Specifications                                                      *)
(* ------------------------------------------------------------------ *)
Next ==
    \E i \in Invocations :
        \/ PipeEntry(i)
        \/ PipeNoMessages(i)
        \/ PipeSendRequest(i)
        \/ PostClientError(i)
        \/ PostHttpError(i)
        \/ PostParseRaises(i)
        \/ PostSync(i)
        \/ PostAsync(i)
        \/ PipeComplete(i)
        \/ PipeExcept(i)
        \/ PollStart(i)
        \/ PollTimeout(i)
        \/ PollFetch(i)
        \/ FetchHttpError(i)
        \/ FetchClientError(i)
        \/ FetchRaises(i)
        \/ FetchNotFound(i)
        \/ FetchWorkflowError(i)
        \/ FetchProgress(i)
        \/ FetchDone(i)
        \/ FetchDoneRaises(i)
        \/ PollSleep(i)
        \/ PollWake(i)

Spec == Init /\ [][Next]_vars

(* Two invocations served by the same Pipe object at the same time, with   *)
(* an emitter each, against an upstream that answers at once: the start    *)
(* call returns content or a handle, a status fetch returns progress or    *)
(* completion.                                                             *)
InitShared ==
    /\ Fresh
    /\ text = <<>>
    /\ parsed = <<>>
    /\ upstream = "steady"
    /\ enable_status_indicator = TRUE
    /\ pc = [i \in Invocations |-> "entry"]
    /\ emitter = [i \in Invocations |-> TRUE]
    /\ messages = [i \in Invocations |-> <<UserMessage>>]

NextShared ==
    \E i \in Invocations :
        \/ PipeEntry(i)
        \/ PipeSendRequest(i)
        \/ PostSync(i)
        \/ PostAsync(i)
        \/ PipeComplete(i)
        \/ PollStart(i)
        \/ PollTimeout(i)
        \/ PollFetch(i)
        \/ FetchProgress(i)
        \/ FetchDone(i)
        \/ PollSleep(i)
        \/ PollWake(i)

SpecShared == InitShared /\ [][NextShared]_vars

(* parse_response_text on its own, on every text of at most MaxTextLen     *)
(* atoms.                                                                  *)
Texts == UNION { [1..n -> Atoms] : n \in 0..MaxTextLen }

InitParse ==
    /\ Fresh
    /\ text \in Texts
    /\ parsed = <<>>
    /\ upstream = "any"
    /\ enable_status_indicator = TRUE
    /\ pc = [i \in Invocations |-> "idle"]
    /\ emitter = [i \in Invocations |-> FALSE]
    /\ messages = [i \in Invocations |-> <<>>]

\* the call: parsed holds what came back
ParseCall ==
    /\ parsed = <<>>
    /\ parsed' = <<parse_response_text(text)>>
    /\ UNCHANGED << pipeVars, text >>

NextParse == ParseCall

SpecParse == InitParse /\ [][NextParse]_vars

\* the scheduler runs every coroutine that can run, and every HTTP exchange
\* and every sleep ends
FairSpec == Spec /\ WF_vars(Next)

(* ------------------------------------------------------------------ *)
(* Observations used by the properties                                 *)
(* ------------------------------------------------------------------ *)
Last(q) == q[Len(q)]

\* the events of a sink that satisfy Test
CountWhere(q, Test(_)) == Cardinality({ k \in 1..Len(q) : Test(q[k]) })

IsStatus(e) == e.type = "status"
IsDoneStatus(e) == e.type = "status" /\ e.done
IsMessage(e) == e.type = "message"
IsTimeoutNotice(e) == e.type = "message" /\ e.content = TimeoutNotice
IsNotFoundNotice(e) == e.type = "message" /\ e.content = NotFoundNotice

\* a 200 reply whose error text contains "not found"
IsNotFoundReply(r) ==
    r.kind = "ok" /\ r.snap.error # <<>> /\ ContainsNotFound(r.snap.error)

\* how many not-found replies end the sequence of replies
RECURSIVE TrailingNotFound(_)
TrailingNotFound(rs) ==
    IF rs = <<>> \/ ~IsNotFoundReply(Last(rs)) THEN 0
    ELSE 1 + TrailingNotFound(SubSeq(rs, 1, Len(rs) - 1))

\* the last reply of invocation i has been acted on
Answered(i) == replies[i] # <<>> /\ Len(replies[i]) = Len(fetches[i]) /\ pc[i] # "fetching"

\* the poll session of invocation i has begun
Polling(i) == start_time[i] > 0

(* ------------------------------------------------------------------ *)
(* C1                                                                  *)
(* ------------------------------------------------------------------ *)
\* C1: the poll session ends as not-found exactly on the third consecutive
\* not-found reply: after a not-found reply the session has ended with the
\* not-found notice if and only if that reply is the third of a run of
\* consecutive not-found replies, whatever was fetched before the run.
C1_ThirdConsecutiveNotFound ==
    \A i \in Invocations :
        (emitter[i] /\ Answered(i) /\ IsNotFoundReply(Last(replies[i])))
        => ( CountWhere(sink[i], IsNotFoundNotice) = 1
             <=> TrailingNotFound(replies[i]) = NotFoundLimit )

(* ------------------------------------------------------------------ *)
(* C2                                                                  *)
(* ------------------------------------------------------------------ *)
\* C2: with a sink and the status indicator enabled, when pipe has returned
\* the sink has received a status event with done = true and at least one
\* message event.
C2_TerminalStatusAndMessage ==
    \A i \in Invocations :
        (pc[i] = "returned" /\ emitter[i] /\ enable_status_indicator)
        => ( CountWhere(sink[i], IsDoneStatus) >= 1
             /\ CountWhere(sink[i], IsMessage) >= 1 )

(* ------------------------------------------------------------------ *)
(* C3                                                                  *)
(* ------------------------------------------------------------------ *)
\* a reply after which the loop pauses and polls again; a not-found reply is
\* one as long as the attempt count is below the limit
Transient(rs, k) ==
    \/ rs[k].kind \in {"http_error", "client_error"}
    \/ rs[k].kind = "ok" /\ rs[k].snap.error = <<>> /\ ~rs[k].snap.done
    \/ IsNotFoundReply(rs[k]) /\ k < NotFoundLimit

\* the poll session of invocation i is over
PollOver(i) == Polling(i) /\ pc[i] \in {"complete", "except", "returned"}

FetchLimit == (max_poll_time \div poll_interval) + 1

\* C3: every poll session ends; it issues at most max_poll_time /
\* poll_interval + 1 fetches, and a session all of whose replies were
\* transient has ended through the timeout branch (elapsed > max_poll_time).
C3_PollTerminates ==
    /\ [](\A i \in Invocations :
            /\ Len(fetches[i]) <= FetchLimit
            /\ (PollOver(i) /\ \A k \in 1..Len(replies[i]) : Transient(replies[i], k))
               => elapsed[i] > max_poll_time)
    /\ <>(pc[1] = "returned")

\* a session that was answered transiently FetchLimit times has timed out
C3_Witness ==
    /\ pc[1] = "returned"
    /\ Len(replies[1]) = FetchLimit
    /\ \A k \in 1..Len(replies[1]) : Transient(replies[1], k)
    /\ elapsed[1] > max_poll_time

(* ------------------------------------------------------------------ *)
(* C4                                                                  *)
(* ------------------------------------------------------------------ *)
\* C4: every fetch is issued at a loop head with elapsed <= max_poll_time;
\* the timeout notice is produced only at a loop head with elapsed >
\* max_poll_time, exactly once, after which the session has returned empty
\* content and no further fetch is issued.
C4_TimeoutAtLoopHead ==
    /\ [](\A i \in Invocations :
            /\ \A k \in 1..Len(fetches[i]) : fetches[i][k] <= max_poll_time
            /\ CountWhere(sink[i], IsTimeoutNotice) >= 1 => elapsed[i] > max_poll_time
            /\ (Polling(i) /\ elapsed[i] > max_poll_time)
               => /\ pc[i] \in {"complete", "returned"}
                  /\ n8n_response[i] = <<>> /\ ret[i] = <<>>
                  /\ Len(replies[i]) = Len(fetches[i])
                  /\ emitter[i] => /\ CountWhere(sink[i], IsTimeoutNotice) = 1
                                   /\ \A k \in 1..Len(sink[i]) :
                                        IsTimeoutNotice(sink[i][k]) =>
                                            sink[i][k].n > max_poll_time)
    /\ [][\A i \in Invocations :
            (Polling(i) /\ elapsed[i] > max_poll_time) => fetches'[i] = fetches[i]]_vars

\* a session timed out after more than one fetch, the last one issued
\* exactly at the limit
C4_Witness ==
    /\ pc[1] = "returned"
    /\ emitter[1]
    /\ CountWhere(sink[1], IsTimeoutNotice) = 1
    /\ Len(fetches[1]) >= 2
    /\ Last(fetches[1]) = max_poll_time

(* ------------------------------------------------------------------ *)
(* C5                                                                  *)
(* ------------------------------------------------------------------ *)
\* C5: parse_response_text never raises: whatever the text, the call comes
\* back with a (content, executionId) pair.
C5_ParseNeverRaises == parsed # <<>> => ~parsed[1].raised

(* ------------------------------------------------------------------ *)
(* C6                                                                  *)
(* ------------------------------------------------------------------ *)
StatusEvents(snk) == SelectSeq(snk, IsStatus)

\* the progress messages among the events: they end with the separator
IsProgress(e) ==
    e.type = "message" /\ e.content # <<>> /\ Last(e.content) = Separator[1]

ProgressEvents(snk) == SelectSeq(snk, IsProgress)

\* the calls a throttle of the invocation's own would deliver, given the
\* time of its own last delivery (0 before the first)
RECURSIVE OwnDeliveries(_, _)
OwnDeliveries(calls, last) ==
    IF calls = <<>> THEN <<>>
    ELSE IF Head(calls).done \/ Head(calls).at - last >= emit_interval
         THEN <<Head(calls)>> \o OwnDeliveries(Tail(calls), Head(calls).at)
         ELSE OwnDeliveries(Tail(calls), last)

InPollLoop(i) == pc[i] \in {"loop_head", "fetching", "sleep", "sleeping"}

\* C6: the throttle and the message history are request-scoped: the status
\* events an invocation's sink received are those its own throttle delivers
\* from its own calls, and during its poll session the message history holds
\* exactly the progress messages of that invocation.
C6_RequestScoped ==
    \A i \in Invocations :
        /\ (emitter[i] /\ enable_status_indicator)
           => [k \in 1..Len(StatusEvents(sink[i])) |->
                  StatusCall(StatusEvents(sink[i])[k].at, StatusEvents(sink[i])[k].done)]
              = OwnDeliveries(status_calls[i], 0)
        /\ (emitter[i] /\ InPollLoop(i)) =>
              [k \in 1..Len(streamed_messages) |->
                   Formatted(streamed_messages[k]) \o Separator]
              = [k \in 1..Len(ProgressEvents(sink[i])) |-> ProgressEvents(sink[i])[k].content]

(* ------------------------------------------------------------------ *)
(* C7                                                                  *)
(* ------------------------------------------------------------------ *)
\* when the last status event was delivered; none yet: at construction
LastStatusAt(snk) ==
    IF StatusEvents(snk) = <<>> THEN 0 ELSE Last(StatusEvents(snk)).at

\* C7: with a sink and the indicator enabled, a call of emit_status delivers
\* its event if and only if it is terminal or at least emit_interval has
\* passed since the last delivered status event; nothing else delivers a
\* status event, and last_emit_time changes only when one is delivered.
C7_Throttle ==
    /\ [][\A i \in Invocations :
            LET before == Len(StatusEvents(sink[i]))
                after  == Len(StatusEvents(sink'[i]))
                c      == Last(status_calls'[i])
            IN  /\ (emitter[i] /\ enable_status_indicator
                      /\ status_calls'[i] # status_calls[i])
                   => /\ after = before + 1
                         <=> (c.done \/ c.at - LastStatusAt(sink[i]) >= emit_interval)
                      /\ after = before + 1
                         => /\ Last(StatusEvents(sink'[i])).at = c.at
                            /\ Last(StatusEvents(sink'[i])).done = c.done
                      /\ after \in {before, before + 1}
                /\ status_calls'[i] = status_calls[i] => after = before]_vars
    /\ [][last_emit_time' # last_emit_time
            => \E i \in Invocations :
                 Len(StatusEvents(sink'[i])) = Len(StatusEvents(sink[i])) + 1]_vars

\* two non-terminal calls at the same time, the second suppressed, then a
\* terminal call less than emit_interval later, delivered
C7_Witness ==
    /\ emitter[1] /\ enable_status_indicator
    /\ Len(status_calls[1]) = 3
    /\ ~status_calls[1][1].done /\ ~status_calls[1][2].done /\ status_calls[1][3].done
    /\ status_calls[1][3].at - status_calls[1][1].at < emit_interval
    /\ Len(StatusEvents(sink[1])) = 2
    /\ Last(StatusEvents(sink[1])).done

(* ------------------------------------------------------------------ *)
(* C8                                                                  *)
(* ------------------------------------------------------------------ *)
\* the whole body parses as a JSON object that contains the response field
StartObject(i) == json_loads(Strip(response_text[i].v)).val

HasResponseField(i) ==
    /\ response_text[i].some
    /\ json_loads(Strip(response_text[i].v)).kind = "dict"
    /\ response_field \in DOMAIN StartObject(i)

\* C8: for a start response that is a JSON object with the response field,
\* the content is that field's value, the execution handle is absent (also
\* when the object carries an executionId), and pipe does not poll.
C8_FieldWithoutHandle ==
    \A i \in Invocations :
        HasResponseField(i)
        => /\ execution_id[i] = None
           /\ pc[i] # "poll_start" /\ ~Polling(i)
           /\ pc[i] = "complete" => n8n_response[i] = StartObject(i)[response_field]

\* C8 as amended: the content is that field's value and the execution
\* handle is the object's executionId field, absent only when the object
\* has none; pipe polls exactly when that handle is non-empty.
C8_FieldWithObjectHandle ==
    \A i \in Invocations :
        HasResponseField(i)
        => /\ execution_id[i] = Get(StartObject(i), "executionId")
           /\ (pc[i] = "poll_start" \/ Polling(i))
              <=> Truthy(Get(StartObject(i), "executionId"))
           /\ (pc[i] = "poll_start" \/ (pc[i] = "complete" /\ ~Polling(i)))
              => n8n_response[i] = StartObject(i)[response_field]
           /\ ~Polling(i) => pc[i] # "except"

\* the object carries both fields: the content is kept, polling begins
C8_Witness ==
    /\ HasResponseField(1)
    /\ "executionId" \in DOMAIN StartObject(1)
    /\ pc[1] = "poll_start"
    /\ n8n_response[1] = <<"42">>
    /\ execution_id[1] = Some(<<"e1">>)

(* ------------------------------------------------------------------ *)
(* C9                                                                  *)
(* ------------------------------------------------------------------ *)
\* the start call answered with an object that holds non-empty content in
\* the response field and no execution handle
SyncAnswer(i) ==
    /\ HasResponseField(i)
    /\ StartObject(i)[response_field] # <<>>
    /\ "executionId" \notin DOMAIN StartObject(i)

\* C9: on the synchronous path pipe returns the content, issues no status
\* fetch and, with a sink and the indicator enabled, delivers exactly one
\* status event with done = true.
C9_SynchronousPath ==
    \A i \in Invocations :
        SyncAnswer(i)
        => /\ fetches[i] = <<>> /\ ~Polling(i)
           /\ pc[i] \in {"complete", "returned"}
           /\ pc[i] = "returned"
              => /\ ret[i] = StartObject(i)[response_field]
                 /\ CountWhere(sink[i], IsDoneStatus)
                      = IF emitter[i] /\ enable_status_indicator THEN 1 ELSE 0

C9_Witness ==
    /\ SyncAnswer(1)
    /\ pc[1] = "returned"
    /\ emitter[1] /\ enable_status_indicator
    /\ ret[1] = <<"42">>
    /\ CountWhere(sink[1], IsDoneStatus) = 1

(* ------------------------------------------------------------------ *)
(* C10                                                                 *)
(* ------------------------------------------------------------------ *)
MessageContents(snk) ==
    [k \in 1..Len(SelectSeq(snk, IsMessage)) |-> SelectSeq(snk, IsMessage)[k].content]

\* fewer than NotFoundLimit not-found replies, then a snapshot that is done
\* and carries a result that is rendered
LagThenDone(rs) ==
    /\ rs # <<>>
    /\ Len(rs) - 1 < NotFoundLimit
    /\ \A k \in 1..(Len(rs) - 1) : IsNotFoundReply(rs[k])
    /\ Last(rs).kind = "ok" /\ Last(rs).snap.error = <<>> /\ Last(rs).snap.done
    /\ ResultTruthy(Last(rs).snap.result) /\ Renderable(Last(rs).snap.result)

\* C10: the start banner is the first message event and is delivered before
\* the first fetch; while only the first k < 3 polls have reported "not
\* found" no not-found notice is emitted; when the next poll reports done
\* with result r, the message events are the banner, then
\* (if that snapshot carries a message) its progress message, then the
\* rendered r, with no not-found notice, and pipe returns empty content.
C10_RegistrationLag ==
    \A i \in Invocations :
        emitter[i]
        => /\ fetches[i] # <<>> => MessageContents(sink[i])[1] = Banner(execution_id[i])
           /\ (Len(replies[i]) < NotFoundLimit
                 /\ \A k \in 1..Len(replies[i]) : IsNotFoundReply(replies[i][k]))
              => CountWhere(sink[i], IsNotFoundNotice) = 0
           /\ (pc[i] = "returned" /\ LagThenDone(replies[i]))
              => /\ MessageContents(sink[i])
                      = <<Banner(execution_id[i])>>
                        \o (IF Last(replies[i]).snap.message # <<>>
                            THEN <<Formatted(Last(replies[i]).snap.message) \o Separator>>
                            ELSE <<>>)
                        \o << <<NL>> \o format_final_response(Last(replies[i]).snap.result) >>
                 /\ CountWhere(sink[i], IsNotFoundNotice) = 0
                 /\ ret[i] = <<>>

\* two not-found replies, then done with result "ok" and no message: the
\* sink holds the banner and the result
C10_Witness ==
    /\ pc[1] = "returned" /\ emitter[1]
    /\ Len(replies[1]) = NotFoundLimit
    /\ LagThenDone(replies[1])
    /\ Last(replies[1]).snap.message = <<>>
    /\ Last(replies[1]).snap.result = StrResult
    /\ MessageContents(sink[1]) = <<Banner(execution_id[1]), <<NL, "ok">> >>

(* ------------------------------------------------------------------ *)
(* C11                                                                 *)
(* ------------------------------------------------------------------ *)
IsErrorDoneStatus(e) == e.type = "status" /\ e.done /\ e.level = "error"

\* the invocation was entered with an empty message list
EmptyRequest(i) == pc[i] # "idle" /\ messages[i] = <<>>

\* C11: with an empty message list pipe issues no start call and no status
\* fetch, returns the fixed diagnostic string and (with a sink and the
\* indicator enabled) has delivered exactly one status event with done =
\* true, of level error, and no message event.
C11_EmptyMessageList ==
    \A i \in Invocations :
        EmptyRequest(i)
        => /\ posts[i] = 0 /\ fetches[i] = <<>> /\ ~Polling(i)
           /\ pc[i] \in {"entry", "check", "returned"}
           /\ pc[i] = "returned"
              => /\ ret[i] = NoMessagesText
                 /\ CountWhere(sink[i], IsDoneStatus)
                      = IF emitter[i] /\ enable_status_indicator THEN 1 ELSE 0
                 /\ CountWhere(sink[i], IsErrorDoneStatus)
                      = CountWhere(sink[i], IsDoneStatus)
                 /\ CountWhere(sink[i], IsMessage) = 0

C11_Witness ==
    /\ EmptyRequest(1)
    /\ pc[1] = "returned"
    /\ emitter[1] /\ enable_status_indicator
    /\ ret[1] = NoMessagesText
    /\ Len(sink[1]) = 2
    /\ IsErrorDoneStatus(sink[1][2])

(* ------------------------------------------------------------------ *)
(* C12                                                                 *)
(* ------------------------------------------------------------------ *)
\* the start call failed: it was issued and no body was ever parsed
StartFailed(i) ==
    /\ posts[i] >= 1
    /\ ~response_text[i].some
    /\ pc[i] \in {"except", "returned"}

\* the error indicator of the entry point contract: {error: <text>}
ErrorIndicator(e) == <<"error">> \o e

IsErrorNotice(e) == e.type = "message" /\ e.content[1] = ErrorNotice(<<>>)[1]

\* C12: when the start call answers with a status other than 200 and 202 or
\* raises a transport error, it has been issued exactly once, no status
\* fetch is issued, nothing is appended to the message list, a terminal
\* error status and an error message are delivered, and pipe returns an
\* error indicator instead of content.
C12_StartFailureAborts ==
    \A i \in Invocations :
        StartFailed(i)
        => /\ posts[i] = 1 /\ fetches[i] = <<>> /\ ~Polling(i)
           /\ messages[i] = <<UserMessage>>
           /\ pc[i] = "returned"
              => /\ emitter[i] => CountWhere(sink[i], IsErrorNotice) = 1
                 /\ (emitter[i] /\ enable_status_indicator)
                    => CountWhere(sink[i], IsErrorDoneStatus) = 1
                 /\ ret[i] = ErrorIndicator(error_msg[i])

(* ------------------------------------------------------------------ *)
(* C13                                                                 *)
(* ------------------------------------------------------------------ *)
\* a 200 reply whose snapshot reports no error
IsCleanReply(r) == r.kind = "ok" /\ r.snap.error = <<>>

\* the messages of the 200 snapshots without error, in the order polled
RECURSIVE PolledMessages(_)
PolledMessages(rs) ==
    IF rs = <<>> THEN <<>>
    ELSE (IF IsCleanReply(Head(rs)) THEN <<Head(rs).snap.message>> ELSE <<>>)
         \o PolledMessages(Tail(rs))

\* a sequence of messages with the empty ones removed and adjacent
\* duplicates collapsed
RECURSIVE Collapsed(_)
Collapsed(ms) ==
    IF ms = <<>> THEN <<>>
    ELSE LET rest == Collapsed(SubSeq(ms, 1, Len(ms) - 1))
         IN  IF Last(ms) = <<>> \/ (rest # <<>> /\ Last(rest) = Last(ms))
             THEN rest
             ELSE Append(rest, Last(ms))

\* the step receives a status reply for invocation i
Replied(i) == replies'[i] # replies[i]

\* C13: in a poll session the message history is the polled message
\* sequence with empty messages removed and adjacent duplicates collapsed,
\* no two consecutive entries are equal, the last seen message is its last
\* entry, and the progress messages delivered are its entries in order; a
\* reply delivers a progress message if and only if it is a 200 snapshot
\* without error whose message is non-empty and differs from the last seen
\* message, and any other reply leaves the last seen message unchanged.
C13_MessageDeduplication ==
    /\ [](\A i \in Invocations :
            Polling(i)
            => /\ streamed_messages = Collapsed(PolledMessages(replies[i]))
               /\ \A k \in 1..(Len(streamed_messages) - 1) :
                     streamed_messages[k] # streamed_messages[k + 1]
               /\ last_message[i] = IF streamed_messages = <<>> THEN <<>>
                                    ELSE Last(streamed_messages)
               /\ emitter[i]
                  => [k \in 1..Len(ProgressEvents(sink[i])) |->
                         ProgressEvents(sink[i])[k].content]
                     = [k \in 1..Len(streamed_messages) |->
                         Formatted(streamed_messages[k]) \o Separator])
    /\ [][\A i \in Invocations :
            Replied(i)
            => LET r == Last(replies'[i])
                   emitted == Len(ProgressEvents(sink'[i])) - Len(ProgressEvents(sink[i]))
               IN  /\ emitter[i]
                      => /\ emitted \in {0, 1}
                         /\ emitted = 1
                            <=> /\ IsCleanReply(r)
                                /\ r.snap.message # <<>>
                                /\ r.snap.message # last_message[i]
                   /\ ~IsCleanReply(r) => last_message'[i] = last_message[i]]_vars

\* the same message polled twice, then another one: two entries
C13_Witness ==
    /\ emitter[1]
    /\ Len(replies[1]) = 3
    /\ PolledMessages(replies[1]) = <<M1, M1, M2>>
    /\ streamed_messages = <<M1, M2>>
    /\ Len(ProgressEvents(sink[1])) = 2

(* ------------------------------------------------------------------ *)
(* C14                                                                 *)
(* ------------------------------------------------------------------ *)
IsNetworkNotice(e) == e.type = "message" /\ e.content = NetworkNotice

\* C14: a fetch answered with a status other than 200 delivers no event, a
\* fetch that raises a transport error delivers exactly one warning message
\* that carries the attempt count; both leave the last seen message and the
\* message history unchanged and lead to the pause, after which the loop is
\* back at its head and fetches again unless the time limit is exceeded.
C14_TransientFailures ==
    /\ [][\A i \in Invocations :
            (Replied(i) /\ Last(replies'[i]).kind \in {"http_error", "client_error"})
            => /\ pc'[i] = "sleep"
               /\ last_message'[i] = last_message[i]
               /\ streamed_messages' = streamed_messages
               /\ sink'[i] = IF Last(replies'[i]).kind = "client_error" /\ emitter[i]
                             THEN Append(sink[i],
                                         MessageEvent(now', NetworkNotice, Len(fetches[i])))
                             ELSE sink[i]]_vars
    /\ [][\A i \in Invocations :
            /\ (pc[i] = "sleep" /\ pc'[i] # "sleep")
               => pc'[i] = "sleeping" /\ wake_at'[i] = now + poll_interval
            /\ (pc[i] = "sleeping" /\ pc'[i] # "sleeping")
               => pc'[i] = "loop_head" /\ now' >= wake_at[i]
            /\ (pc[i] = "loop_head" /\ pc'[i] # "loop_head")
               => \/ pc'[i] = "fetching"
                  \/ pc'[i] = "complete" /\ now - start_time[i] > max_poll_time]_vars

\* a non-200 reply, then a transport error, then a third fetch: the only
\* message besides the banner is the warning of attempt 2
C14_Witness ==
    /\ emitter[1]
    /\ Len(fetches[1]) = 3
    /\ Len(replies[1]) = 2
    /\ replies[1][1].kind = "http_error"
    /\ replies[1][2].kind = "client_error"
    /\ CountWhere(sink[1], IsMessage) = 2
    /\ IsNetworkNotice(Last(sink[1])) /\ Last(sink[1]).n = 2

(* ------------------------------------------------------------------ *)
(* C15                                                                 *)
(* ------------------------------------------------------------------ *)
\* a 200 snapshot that reports an error other than "not found"
IsWorkflowErrorReply(r) == r.kind = "ok" /\ r.snap.error = OtherError

IsWorkflowErrorNotice(e) ==
    e.type = "message" /\ e.content = <<"**Workflow error:** ">> \o OtherError

\* C15: a 200 snapshot with an error other than "not found" ends the poll
\* session at that poll: one workflow-error message is delivered and nothing
\* else, its message, done and result fields have no effect, no pause and
\* no further fetch follow, and the session returns empty content.
C15_WorkflowErrorTerminal ==
    /\ [][\A i \in Invocations :
            (Replied(i) /\ IsWorkflowErrorReply(Last(replies'[i])))
            => /\ pc'[i] = "complete" /\ n8n_response'[i] = <<>>
               /\ sink'[i] = IF emitter[i]
                             THEN Append(sink[i],
                                    MessageEvent(now', <<"**Workflow error:** ">> \o OtherError, 0))
                             ELSE sink[i]
               /\ last_message'[i] = last_message[i]
               /\ streamed_messages' = streamed_messages
               /\ status_calls'[i] = status_calls[i]]_vars
    /\ [](\A i \in Invocations :
            (replies[i] # <<>> /\ IsWorkflowErrorReply(Last(replies[i])))
            => /\ pc[i] \in {"complete", "returned"}
               /\ Len(fetches[i]) = Len(replies[i])
               /\ sleeps[i] = Len(replies[i]) - 1
               /\ emitter[i] => CountWhere(sink[i], IsWorkflowErrorNotice) = 1
               /\ pc[i] = "returned" => ret[i] = <<>>)

\* the third poll reports an error together with a message, done and a
\* result: only the error message is delivered
C15_Witness ==
    /\ emitter[1] /\ pc[1] = "returned"
    /\ Len(replies[1]) = 3
    /\ Last(replies[1]) = Reply("ok", Snapshot(OtherError, M1, TRUE, StrResult))
    /\ CountWhere(sink[1], IsWorkflowErrorNotice) = 1
    /\ CountWhere(sink[1], IsProgress) = 0
    /\ ret[1] = <<>>

(* ------------------------------------------------------------------ *)
(* C16                                                                 *)
(* ------------------------------------------------------------------ *)
\* a 200 snapshot without error that reports done
IsDoneReply(r) == IsCleanReply(r) /\ r.snap.done

\* the events the step appended to the sink of invocation i
Appended(i) == SubSeq(sink'[i], Len(sink[i]) + 1, Len(sink'[i]))

\* C16: a 200 snapshot without error and with done = true ends the poll
\* session at that poll; the events of that poll are, in this order, the
\* progress message and the status indicator marked done (both only if the
\* message changed) and the rendered result (only if a result is present,
\* always if it is a non-empty string or object); no fetch follows and the
\* returned content is empty with or without a result.
C16_DoneSnapshot ==
    /\ [][\A i \in Invocations :
            (Replied(i) /\ IsDoneReply(Last(replies'[i])))
            => LET s == Last(replies'[i]).snap
                   changed == s.message # <<>> /\ s.message # last_message[i]
                   progress == IF changed /\ emitter[i]
                               THEN << MessageEvent(now', Formatted(s.message) \o Separator, 0) >>
                               ELSE <<>>
                   status == IF changed /\ emitter[i] /\ enable_status_indicator
                             THEN << StatusEvent(now', "info", PhaseText, TRUE) >>
                             ELSE <<>>
                   first == Len(progress) + Len(status)
               IN  /\ Len(sink'[i]) >= Len(sink[i]) + first
                   /\ SubSeq(sink'[i], 1, Len(sink[i])) = sink[i]
                   /\ SubSeq(Appended(i), 1, first) = progress \o status
                   /\ Len(Appended(i)) <= first + 1
                   /\ Len(Appended(i)) = first + 1
                      => /\ s.result.kind # "none"
                         /\ Last(Appended(i)) =
                              MessageEvent(now', <<NL>> \o format_final_response(s.result), 0)
                   /\ (emitter[i] /\ s.result.kind \in {"str", "dict"} /\ s.result.val # <<>>)
                      => Len(Appended(i)) = first + 1
                   /\ pc'[i] \in {"complete", "except"}
                   /\ pc'[i] = "complete" => n8n_response'[i] = <<>>
                   /\ pc'[i] = "except" => s.result.kind \notin {"none", "str", "dict"}]_vars
    /\ [](\A i \in Invocations :
            (replies[i] # <<>> /\ IsDoneReply(Last(replies[i])))
            => /\ pc[i] \in {"complete", "except", "returned"}
               /\ Len(fetches[i]) = Len(replies[i])
               /\ pc[i] = "returned" => ret[i] = <<>>)

\* a done snapshot with a new message and the result "ok": progress
\* message, status marked done, rendered result, then pipe's final status
C16_Witness ==
    /\ emitter[1] /\ enable_status_indicator /\ pc[1] = "returned"
    /\ replies[1] # <<>>
    /\ IsDoneReply(Last(replies[1]))
    /\ Last(replies[1]).snap.result = StrResult
    /\ Len(sink[1]) >= 4
    /\ IsProgress(sink[1][Len(sink[1]) - 3])
    /\ IsDoneStatus(sink[1][Len(sink[1]) - 2])
    /\ sink[1][Len(sink[1]) - 2].content = PhaseText
    /\ sink[1][Len(sink[1]) - 1].content = <<NL, "ok">>
    /\ IsDoneStatus(Last(sink[1]))
    /\ ret[1] = <<>>

(* ------------------------------------------------------------------ *)
(* C17                                                                 *)
(* ------------------------------------------------------------------ *)
\* the whole-document step answers: the trimmed text is a JSON object with
\* the response field or with an execution id, or a JSON string
WholeDocumentAnswers(t) ==
    \/ /\ json_loads(t).kind = "dict"
       /\ \/ response_field \in DOMAIN json_loads(t).val
          \/ Truthy(Get(json_loads(t).val, "executionId"))
    \/ json_loads(t).kind = "str"

\* the NDJSON step applies to the trimmed text
NdjsonApplies(t) == ~WholeDocumentAnswers(t) /\ (HasNL(t) \/ StartsWithType(t))

\* what one line contributes to the content: the content of an item or
\* message line, the text of a line that is not valid JSON, else nothing
LineContent(rawline) ==
    LET line == Strip(rawline)
        v == json_loads(line)
    IN  IF line = <<>> THEN <<>>
        ELSE IF v.kind = "bad" THEN line
        ELSE IF v.kind # "dict" THEN <<>>
        ELSE IF Get(v.val, "type") = Some(<<"item">>)
             THEN (IF "content" \in DOMAIN v.val THEN v.val["content"] ELSE <<>>)
        ELSE IF Get(v.val, "type") = Some(<<"message">>)
             THEN (IF "content" \in DOMAIN v.val /\ v.val["content"] # <<>>
                   THEN v.val["content"]
                   ELSE IF "data" \in DOMAIN v.val THEN v.val["data"] ELSE <<>>)
        ELSE <<>>

\* the content of the lines, concatenated in document order
RECURSIVE LinesContent(_)
LinesContent(lines) ==
    IF lines = <<>> THEN <<>> ELSE LineContent(Head(lines)) \o LinesContent(Tail(lines))

\* the execution id a line carries, if any
LineHandle(rawline) ==
    LET v == json_loads(Strip(rawline))
    IN  IF v.kind = "dict" /\ Truthy(Get(v.val, "executionId"))
        THEN Get(v.val, "executionId")
        ELSE None

\* the execution id of the last line that carries one
RECURSIVE LastHandle(_)
LastHandle(lines) ==
    IF lines = <<>> THEN None
    ELSE IF LineHandle(Last(lines)).some THEN LineHandle(Last(lines))
    ELSE LastHandle(SubSeq(lines, 1, Len(lines) - 1))

\* neither the whole-document step nor the NDJSON step produces content
NoContentProduced(t) ==
    /\ ~WholeDocumentAnswers(t)
    /\ NdjsonApplies(t) => LinesContent(Split(t)) = <<>>

\* C17: whenever neither the whole-document step nor the NDJSON step
\* produces content, parse_response_text returns the trimmed text as
\* content and no execution handle, also when lines carry an executionId.
C17_FallbackWithoutHandle ==
    (parsed # <<>> /\ NoContentProduced(Strip(text)))
    => parsed[1] = Returned(Strip(text), None)

(* ------------------------------------------------------------------ *)
(* C18                                                                 *)
(* ------------------------------------------------------------------ *)
\* C18: when the NDJSON step produces content, the returned content is the
\* concatenation in document order of the content of the item and message
\* lines and of the text of the lines that are not valid JSON, and the
\* returned handle is the executionId of the last line that carries one,
\* whatever the lines are.
C18_NdjsonHandleAndContent ==
    (parsed # <<>> /\ NdjsonApplies(Strip(text))
       /\ LinesContent(Split(Strip(text))) # <<>>)
    => parsed[1] = Returned(LinesContent(Split(Strip(text))),
                            LastHandle(Split(Strip(text))))

(* ------------------------------------------------------------------ *)
(* C19                                                                 *)
(* ------------------------------------------------------------------ *)
\* C19: at most one status fetch of an invocation is in flight; a fetch is
\* issued only when every earlier one has been answered and exactly one
\* pause has been taken after each of them, not before that pause has
\* lasted poll_interval; so consecutive fetches start at least
\* poll_interval apart, and a pause is only taken after a reply.
C19_SequentialAndPaced ==
    /\ [](\A i \in Invocations :
            /\ Len(fetches[i]) - Len(replies[i]) = IF pc[i] = "fetching" THEN 1 ELSE 0
            /\ sleeps[i] <= Len(replies[i])
            /\ \A k \in 1..(Len(fetches[i]) - 1) :
                  fetches[i][k + 1] - fetches[i][k] >= poll_interval)
    /\ [][\A i \in Invocations :
            /\ fetches'[i] # fetches[i]
               => /\ Len(fetches'[i]) = Len(fetches[i]) + 1
                  /\ Len(replies[i]) = Len(fetches[i])
                  /\ sleeps[i] = Len(fetches[i])
                  /\ fetches[i] # <<>> => now >= wake_at[i]
            /\ sleeps'[i] # sleeps[i]
               => /\ sleeps'[i] = sleeps[i] + 1
                  /\ sleeps[i] = Len(replies[i]) - 1
                  /\ wake_at'[i] = now + poll_interval]_vars

\* the last fetch the time limit allows is in flight, after one pause for
\* each earlier fetch
C19_Witness ==
    /\ pc[1] = "fetching"
    /\ Len(fetches[1]) = FetchLimit
    /\ sleeps[1] = FetchLimit - 1
    /\ fetches[1][2] - fetches[1][1] > poll_interval

(* ------------------------------------------------------------------ *)
(* C20                                                                 *)
(* ------------------------------------------------------------------ *)
\* C20: in the sink of an invocation no status event with done = false
\* follows a status event with done = true.
C20_DoneIsFinal ==
    \A i \in Invocations :
        \A j, k \in 1..Len(StatusEvents(sink[i])) :
            (j < k /\ StatusEvents(sink[i])[j].done) => StatusEvents(sink[i])[k].done

\* a poll reported done with a new message, format_final_response raised on
\* its result, and pipe's except clause delivered the error status
C20_Witness ==
    /\ pc[1] = "returned" /\ Polling(1)
    /\ error_msg[1] = <<"AttributeError">>
    /\ Len(StatusEvents(sink[1])) >= 2
    /\ IsErrorDoneStatus(Last(StatusEvents(sink[1])))
    /\ StatusEvents(sink[1])[Len(StatusEvents(sink[1])) - 1].done
    /\ StatusEvents(sink[1])[Len(StatusEvents(sink[1])) - 1].content = PhaseText

====
